---- MODULE Spec2Model ----
(***************************************************************************)
(* The room broker of rust_tic_tac_toe_game_server (src/room/room.rs):     *)
(* the registry of rooms behind one mutex, the join protocol of            *)
(* handle_join_room, the three fan-outs (join, relay, leave), the cleanup  *)
(* of dead connections and the teardown.                                   *)
(*                                                                         *)
(* Every block of the code that runs while the mutex is held is one        *)
(* action.  The sends of a fan-out run outside the mutex, one action per   *)
(* recipient, in any order (the snapshot is read out of a HashMap).        *)
(* The two relay loops of a connection are spawned tasks: they run on      *)
(* after tokio::select! has returned and their JoinHandles are dropped.    *)
(***************************************************************************)
EXTENDS Integers, Sequences, FiniteSets

\* ------------------------------------------------------------------ bounds
\* Number of transport connections (sockets) that are ever accepted.
NumConns == 3
\* Number of room identifiers the clients choose from.
NumRooms == 2
\* Weight of the events the environment produces in a run: a connection accepted
\* weighs 4, a text frame sent by a client 2, the first frame of a connection
\* that is not text 2, a transport write that fails 1.
MaxLoad == 12
\* Width in bits of the ConnectionId counter (u64 in the code, scaled down).
IdWidth == 3

Procs == 1 .. NumConns
RoomIds == 1 .. NumRooms
IdModulus == 2 ^ IdWidth
ConnectionId == 0 .. (IdModulus - 1)
\* Option<ConnectionId>::None
None == -1

VARIABLES
    rooms,               \* AppState.rooms: room id -> (ConnectionId -> (tx, mark))
    next_connection_id,  \* AppState.next_connection_id
    pc,                  \* position of each handle_join_room call
    room_id,             \* its room_id argument (0 until the upgrade)
    reservation,         \* its connection_opt_and_count_and_mark
    snapshot,            \* the snapshot / senders Vec of its current fan-out
    pending,             \* the entries of that Vec the send loop has yet to visit
    dead_connections,    \* the dead_connections Vec of its current fan-out
    send_task,           \* state of its send_task
    recv_task,           \* state of its recv_task
    recv_text,           \* the text frame its recv_task is relaying
    recv_senders,        \* the senders Vec of the recv_task's fan-out
    recv_pending,        \* its entries yet to visit
    recv_dead,           \* the dead_connections Vec of the recv_task's fan-out
    chan,                \* the mpsc channel (tx, rx) of each connection
    wire,                \* the frames the handler itself writes to its socket
                         \* (room.rs 126-127); send_task writes what it dequeues from chan
    frames,              \* number of text frames read from each connection so far
    skipped,             \* the number of text frames a connection had sent when its
                         \* first frame that is not text was read (None: no such frame)
    write_errors         \* number of transport writes that have failed so far

vars == << rooms, next_connection_id, pc, room_id, reservation, snapshot, pending,
           dead_connections, send_task, recv_task, recv_text, recv_senders,
           recv_pending, recv_dead, chan, wire, frames, skipped, write_errors >>

hvars == << pc, room_id, reservation, snapshot, pending, dead_connections >>
rvars == << recv_task, recv_text, recv_senders, recv_pending, recv_dead >>

\* ------------------------------------------------------------------ data
\* response.rs: enum PlayerMark and PlayerMark::to_string
PlayerMark == {"X", "O"}

to_string(mark) == IF mark = "X" THEN "x" ELSE "o"

\* HashMap helpers
MapInsert(f, k, v) == [x \in (DOMAIN f) \cup {k} |-> IF x = k THEN v ELSE f[x]]

MapRemove(f, k) == [x \in (DOMAIN f) \ {k} |-> f[x]]

EmptyMap == [x \in {} |-> 0]

\* Room::new
RoomNew == EmptyMap

\* rooms.get(room_id).map(|r| r.connections.len()).unwrap_or(0)
CurrentCount(rs, r) == IF r \in DOMAIN rs THEN Cardinality(DOMAIN rs[r]) ELSE 0

\* A counter that is not moved on.
WrappingAddNothing(id) == id

\* u64::wrapping_add(1)
WrappingAdd(id) == (id + 1) % IdModulus

\* The envelope RoomResponse { response_type: RoomState, response: RoomStateResponse }
RoomStateResponse(r, n, msg, ok, mark) ==
    [ response_type |-> "room_state", room_id |-> r, num_connections |-> n,
      message |-> msg, success |-> ok, my_mark |-> mark ]

\* A text frame relayed as it is: no envelope
TextPayload(text) == [ response_type |-> "none", text |-> text ]

CloseFrame == [ response_type |-> "close" ]

\* ------------------------------------------------------------------ registry
\* The (cid, tx.clone(), mark) entries a fan-out copies out of a room under the
\* lock; tx is the connection whose channel the sender feeds.
Snapshot(rs, r) ==
    IF r \in DOMAIN rs
    THEN { [cid |-> c, tx |-> rs[r][c].tx, mark |-> rs[r][c].mark] : c \in DOMAIN rs[r] }
    ELSE {}

\* A cleanup that deletes the room whatever is left in it.
cleanup_deletes_room(rs, r, dead) ==
    IF dead = {} \/ r \notin DOMAIN rs THEN rs ELSE MapRemove(rs, r)

\* The second lock hold of cleanup_dead_connections (announce and exclude are None
\* at every call of room.rs): remove the dead ids, delete the room if it is empty.
cleanup_dead_connections(rs, r, dead) ==
    IF dead = {} \/ r \notin DOMAIN rs
    THEN rs
    ELSE LET connections == [c \in (DOMAIN rs[r]) \ dead |-> rs[r][c]]
         IN  IF DOMAIN connections = {}
             THEN MapRemove(rs, r)
             ELSE [rs EXCEPT ![r] = connections]

\* A removal that takes the whole room with it.
RemoveConnectionClearsRoom(rs, r, id) == IF r \notin DOMAIN rs THEN rs ELSE MapRemove(rs, r)

\* A removal that removes nothing.
RemoveConnectionSkipped(rs, r, id) == rs

\* A removal that forgets to delete the room it has emptied.
RemoveConnectionKeepsRoom(rs, r, id) ==
    IF r \notin DOMAIN rs THEN rs ELSE [rs EXCEPT ![r] = MapRemove(rs[r], id)]

\* The last lock hold of handle_join_room: remove the entry of connection_id.
RemoveConnection(rs, r, id) ==
    IF r \notin DOMAIN rs
    THEN rs
    ELSE LET connections == MapRemove(rs[r], id)
         IN  IF DOMAIN connections = {}
             THEN MapRemove(rs, r)
             ELSE [rs EXCEPT ![r] = connections]

\* A leave snapshot that keeps the entry of the departing connection.
LeaveSendersWithDeparting(rs, r, id) == Snapshot(rs, r)

\* room.rs 240-246: the entries of the room other than connection_id.
LeaveSenders(rs, r, id) == { e \in Snapshot(rs, r) : e.cid # id }

\* A capacity check that is off by one.
RoomIsFullAboveTwo(current_count) == current_count > 2

\* room.rs 89: if current_count >= 2
RoomIsFull(current_count) == current_count >= 2

\* A mark that does not depend on the count.
AssignedMarkAlwaysX(current_count) == "X"

\* room.rs 97-101: X for the first connection of a room, O otherwise.
AssignedMark(current_count) == IF current_count = 0 THEN "X" ELSE "O"

\* ------------------------------------------------------------------ channels
\* rx lives in handle_join_room until it is moved into send_task and is dropped
\* when send_task ends: from then on tx.send(..) is an error.
RxDropped(q) == send_task[q] = "ended"

\* A channel that hands out the newest payload first.
EnqueueFront(queue, payload) == << payload >> \o queue

\* UnboundedSender::send on an open channel: the payload goes to the back.
Enqueue(queue, payload) == Append(queue, payload)

\* tx_conn.send(payload): the queue of every channel after the send to entry e
ChanAfterSend(e, payload) ==
    IF RxDropped(e.tx) THEN chan ELSE [chan EXCEPT ![e.tx] = Enqueue(@, payload)]

\* if tx_conn.send(..).is_err() { dead_connections.push(*cid) }
DeadAfterSend(e, dead) == IF RxDropped(e.tx) THEN dead \cup {e.cid} ELSE dead

\* A join envelope that carries the mark of the joiner (the newest entry).
JoinPayloadJoinerMark(r, snap, e) ==
    LET joiner == CHOOSE x \in snap : \A y \in snap : y.cid <= x.cid
    IN  RoomStateResponse(r, Cardinality(snap), "Someone joined the room", TRUE,
                          to_string(joiner.mark))

\* A join envelope that counts the other members only.
JoinPayloadCountsOthers(r, snap, e) ==
    RoomStateResponse(r, Cardinality(snap) - 1, "Someone joined the room", TRUE,
                      to_string(e.mark))

\* room.rs 149-155: the join envelope of the recipient e of snapshot snap.
JoinPayload(r, snap, e) ==
    RoomStateResponse(r, Cardinality(snap), "Someone joined the room", TRUE,
                      to_string(e.mark))

\* room.rs 254: format!("Player {} left the room", ..) of a mark's name.
LeaveMessage(name) ==
    IF name = "x" THEN "Player x left the room" ELSE "Player o left the room"

\* A leave envelope that carries the mark the recipient does not hold.
LeavePayloadOtherMark(r, senders, e) ==
    RoomStateResponse(r, Cardinality(senders), LeaveMessage(to_string(e.mark)), TRUE,
                      to_string(IF e.mark = "X" THEN "O" ELSE "X"))

\* A leave envelope that counts the departing connection too.
LeavePayloadCountsDeparting(r, senders, e) ==
    RoomStateResponse(r, Cardinality(senders) + 1,
                      LeaveMessage(to_string(e.mark)), TRUE,
                      to_string(e.mark))

\* room.rs 251-257: the leave envelope of the recipient e of the snapshot senders.
LeavePayload(r, senders, e) ==
    RoomStateResponse(r, Cardinality(senders),
                      LeaveMessage(to_string(e.mark)), TRUE,
                      to_string(e.mark))

\* A rejection that reports the count a join would have led to.
FullPayloadPostJoin(r, current_count) ==
    RoomStateResponse(r, current_count + 1, "Room is full", FALSE, to_string("X"))

\* room.rs 111-117: the envelope of the rejection.
FullPayload(r, current_count) ==
    RoomStateResponse(r, current_count, "Room is full", FALSE, to_string("X"))

\* A relay that wraps the text into an envelope.
RelayPayloadEnveloped(text) ==
    RoomStateResponse(0, 0, text, TRUE, to_string("X"))

\* room.rs 212: text.clone().to_string(), the frame as it was read.
RelayPayload(text) == TextPayload(text)

\* Some clone of the sender of p's channel is still alive: the tx of the handler,
\* the clone in the registry, or a clone in a snapshot.
SenderAlive(p) ==
    \/ pc[p] # "closed"
    \/ \E r \in DOMAIN rooms : \E c \in DOMAIN rooms[r] : rooms[r][c].tx = p
    \/ \E q \in Procs : \E e \in snapshot[q] \cup recv_senders[q] : e.tx = p

\* Number of text frames read so far from the connections of S.
RECURSIVE FramesRead(_)
FramesRead(S) ==
    IF S = {} THEN 0
    ELSE LET p == CHOOSE q \in S : TRUE IN frames[p] + FramesRead(S \ {p})

\* The events of the environment so far.
Accepted == { p \in Procs : pc[p] # "connecting" }

\* The connections that have sent a frame that is not text.
Skipped == { p \in Procs : skipped[p] # None }

Load == 4 * Cardinality(Accepted) + 2 * FramesRead(Procs) + write_errors
            + 2 * Cardinality(Skipped)

\* ------------------------------------------------------------------ Init
Init ==
    /\ rooms = EmptyMap
    /\ next_connection_id = 0
    /\ pc = [p \in Procs |-> "connecting"]
    /\ room_id = [p \in Procs |-> 0]
    /\ reservation = [p \in Procs |-> [id |-> None, count |-> 0, mark |-> "X"]]
    /\ snapshot = [p \in Procs |-> {}]
    /\ pending = [p \in Procs |-> {}]
    /\ dead_connections = [p \in Procs |-> {}]
    /\ send_task = [p \in Procs |-> "unspawned"]
    /\ recv_task = [p \in Procs |-> "unspawned"]
    /\ recv_text = [p \in Procs |-> << >>]
    /\ recv_senders = [p \in Procs |-> {}]
    /\ recv_pending = [p \in Procs |-> {}]
    /\ recv_dead = [p \in Procs |-> {}]
    /\ chan = [p \in Procs |-> << >>]
    /\ wire = [p \in Procs |-> << >>]
    /\ frames = [p \in Procs |-> 0]
    /\ skipped = [p \in Procs |-> None]
    /\ write_errors = 0

\* ------------------------------------------------------------------ handle_join_room
\* The connections are numbered in the order in which they take the lock of the
\* reservation, and the room ids in the order of their first use.
AcceptedInOrder(p, r) ==
    /\ \A q \in Procs : q < p => pc[q] # "connecting"
    /\ \A s \in RoomIds : s < r => \E q \in Procs : room_id[q] = s

\* room.rs 80-107: the count read, the id, the mark and the insert in one lock hold.
Reserve(p, r) ==
    /\ pc[p] = "connecting"
    /\ AcceptedInOrder(p, r)
    /\ Load + 4 <= MaxLoad
    /\ room_id' = [room_id EXCEPT ![p] = r]
    /\ LET current_count == CurrentCount(rooms, r)
       IN  IF RoomIsFull(current_count)
           THEN /\ reservation' = [reservation EXCEPT
                        ![p] = [id |-> None, count |-> current_count, mark |-> "X"]]
                /\ pc' = [pc EXCEPT ![p] = "rejected"]
                /\ UNCHANGED << rooms, next_connection_id >>
           ELSE LET id == next_connection_id
                    assigned_mark == AssignedMark(current_count)
                    room == IF r \in DOMAIN rooms THEN rooms[r] ELSE RoomNew
                IN  /\ next_connection_id' = WrappingAdd(next_connection_id)
                    /\ rooms' = MapInsert(rooms, r,
                                  MapInsert(room, id, [tx |-> p, mark |-> assigned_mark]))
                    /\ reservation' = [reservation EXCEPT
                            ![p] = [id |-> id, count |-> current_count + 1,
                                    mark |-> assigned_mark]]
                    /\ pc' = [pc EXCEPT ![p] = "joined"]
    /\ UNCHANGED << snapshot, pending, dead_connections, send_task, chan, wire, frames, skipped, write_errors >>
    /\ UNCHANGED rvars

\* room.rs 110-129: the rejection envelope and the Close frame, then return.
RejectNotify(p) ==
    /\ pc[p] = "rejected"
    /\ wire' = [wire EXCEPT ![p] =
                  << FullPayload(room_id[p], reservation[p].count), CloseFrame >>]
    /\ pc' = [pc EXCEPT ![p] = "closed"]
    /\ UNCHANGED << rooms, next_connection_id, room_id, reservation, snapshot, pending,
                    dead_connections, send_task, chan, frames, skipped, write_errors >>
    /\ UNCHANGED rvars

\* room.rs 174-187, 189: both tasks are spawned once the join block is over.
Spawned(p, at) ==
    IF at = "select"
    THEN /\ send_task' = [send_task EXCEPT ![p] = "running"]
         /\ recv_task' = [recv_task EXCEPT ![p] = "idle"]
    ELSE UNCHANGED << send_task, recv_task >>

\* A fan-out that gives up at the first send that fails.
AfterSendAborts(rest, dead, loop, cleanup, next) ==
    IF dead # {} THEN cleanup ELSE IF rest # {} THEN loop ELSE next

\* Where a fan-out goes after a send: on with the loop, to the cleanup when a
\* send failed (if !dead_connections.is_empty()), else to the next block.
AfterSend(rest, dead, loop, cleanup, next) ==
    IF rest # {} THEN loop ELSE IF dead # {} THEN cleanup ELSE next

\* room.rs 139-146: the snapshot of the join broadcast.
JoinSnapshot(p) ==
    /\ pc[p] = "joined"
    /\ LET snap == Snapshot(rooms, room_id[p])
           at == AfterSend(snap, {}, "join_send", "join_cleanup", "select")
       IN  /\ snapshot' = [snapshot EXCEPT ![p] = snap]
           /\ pending' = [pending EXCEPT ![p] = snap]
           /\ pc' = [pc EXCEPT ![p] = at]
           /\ Spawned(p, at)
    /\ UNCHANGED << rooms, next_connection_id, room_id, reservation, dead_connections,
                    recv_text, recv_senders, recv_pending, recv_dead, chan, wire, frames, skipped, write_errors >>

\* room.rs 148-166: one turn of the send loop of the join broadcast.
JoinSend(p, e) ==
    /\ pc[p] = "join_send"
    /\ e \in pending[p]
    /\ LET rest == pending[p] \ {e}
           dead == DeadAfterSend(e, dead_connections[p])
           at == AfterSend(rest, dead, "join_send", "join_cleanup", "select")
       IN  /\ chan' = ChanAfterSend(e, JoinPayload(room_id[p], snapshot[p], e))
           /\ pending' = [pending EXCEPT ![p] = rest]
           /\ dead_connections' = [dead_connections EXCEPT ![p] = dead]
           /\ snapshot' = [snapshot EXCEPT ![p] = IF at = "select" THEN {} ELSE @]
           /\ pc' = [pc EXCEPT ![p] = at]
           /\ Spawned(p, at)
    /\ UNCHANGED << rooms, next_connection_id, room_id, reservation, recv_text,
                    recv_senders, recv_pending, recv_dead, wire, frames, skipped, write_errors >>

\* room.rs 168-171: cleanup_dead_connections after the join broadcast.
JoinCleanup(p) ==
    /\ pc[p] = "join_cleanup"
    /\ rooms' = cleanup_dead_connections(rooms, room_id[p], dead_connections[p])
    /\ dead_connections' = [dead_connections EXCEPT ![p] = {}]
    /\ snapshot' = [snapshot EXCEPT ![p] = {}]
    /\ pc' = [pc EXCEPT ![p] = "select"]
    /\ Spawned(p, "select")
    /\ UNCHANGED << next_connection_id, room_id, reservation, pending, recv_text,
                    recv_senders, recv_pending, recv_dead, chan, wire, frames, skipped, write_errors >>

\* A select! that returns while both tasks are still running.
SelectReturnsAtOnce(p) == TRUE

\* room.rs 228-231: select! returns when send_task or recv_task has ended.
SelectReturns(p) == send_task[p] = "ended" \/ recv_task[p] = "ended"

\* room.rs 228-247: select! returns when either task has ended; the snapshot of the
\* leave broadcast leaves out the entry of connection_id.
LeaveSnapshot(p) ==
    /\ pc[p] = "select"
    /\ SelectReturns(p)
    /\ LET senders == LeaveSenders(rooms, room_id[p], reservation[p].id)
           at == AfterSend(senders, {}, "leave_send", "leave_cleanup", "remove")
       IN  /\ snapshot' = [snapshot EXCEPT ![p] = senders]
           /\ pending' = [pending EXCEPT ![p] = senders]
           /\ pc' = [pc EXCEPT ![p] = at]
    /\ UNCHANGED << rooms, next_connection_id, room_id, reservation, dead_connections,
                    send_task, chan, wire, frames, skipped, write_errors >>
    /\ UNCHANGED rvars

\* room.rs 249-267: one turn of the send loop of the leave broadcast.
LeaveSend(p, e) ==
    /\ pc[p] = "leave_send"
    /\ e \in pending[p]
    /\ LET rest == pending[p] \ {e}
           dead == DeadAfterSend(e, dead_connections[p])
           at == AfterSend(rest, dead, "leave_send", "leave_cleanup", "remove")
       IN  /\ chan' = ChanAfterSend(e, LeavePayload(room_id[p], snapshot[p], e))
           /\ pending' = [pending EXCEPT ![p] = rest]
           /\ dead_connections' = [dead_connections EXCEPT ![p] = dead]
           /\ snapshot' = [snapshot EXCEPT ![p] = IF at = "remove" THEN {} ELSE @]
           /\ pc' = [pc EXCEPT ![p] = at]
    /\ UNCHANGED << rooms, next_connection_id, room_id, reservation, send_task, wire,
                    frames, skipped, write_errors >>
    /\ UNCHANGED rvars

\* room.rs 269-271: cleanup_dead_connections after the leave broadcast.
LeaveCleanup(p) ==
    /\ pc[p] = "leave_cleanup"
    /\ rooms' = cleanup_dead_connections(rooms, room_id[p], dead_connections[p])
    /\ dead_connections' = [dead_connections EXCEPT ![p] = {}]
    /\ snapshot' = [snapshot EXCEPT ![p] = {}]
    /\ pc' = [pc EXCEPT ![p] = "remove"]
    /\ UNCHANGED << next_connection_id, room_id, reservation, pending, send_task, chan,
                    wire, frames, skipped, write_errors >>
    /\ UNCHANGED rvars

\* room.rs 274-281: the removal of the connection's own entry; the handler returns.
Remove(p) ==
    /\ pc[p] = "remove"
    /\ rooms' = RemoveConnection(rooms, room_id[p], reservation[p].id)
    /\ pc' = [pc EXCEPT ![p] = "closed"]
    /\ UNCHANGED << next_connection_id, room_id, reservation, snapshot, pending,
                    dead_connections, send_task, chan, wire, frames, skipped, write_errors >>
    /\ UNCHANGED rvars

\* ------------------------------------------------------------------ send_task
\* room.rs 178-186: rx.recv() yields the head of the queue and the write succeeds.
SendTaskDeliver(p) ==
    /\ send_task[p] = "running"
    /\ chan[p] # << >>
    /\ chan' = [chan EXCEPT ![p] = Tail(@)]
    /\ UNCHANGED << rooms, next_connection_id, send_task, wire, frames, skipped, write_errors >>
    /\ UNCHANGED hvars
    /\ UNCHANGED rvars

\* room.rs 179-185: the write fails; the loop breaks and rx is dropped with the task.
SendTaskWriteFail(p) ==
    /\ send_task[p] = "running"
    /\ chan[p] # << >>
    /\ Load + 1 <= MaxLoad
    /\ chan' = [chan EXCEPT ![p] = << >>]
    /\ send_task' = [send_task EXCEPT ![p] = "ended"]
    /\ write_errors' = write_errors + 1
    /\ UNCHANGED << rooms, next_connection_id, wire, frames, skipped >>
    /\ UNCHANGED hvars
    /\ UNCHANGED rvars

\* room.rs 178: rx.recv() yields None once the queue is empty and every sender of
\* the channel has been dropped.
SendTaskChannelClosed(p) ==
    /\ send_task[p] = "running"
    /\ chan[p] = << >>
    /\ ~SenderAlive(p)
    /\ send_task' = [send_task EXCEPT ![p] = "ended"]
    /\ UNCHANGED << rooms, next_connection_id, chan, wire, frames, skipped, write_errors >>
    /\ UNCHANGED hvars
    /\ UNCHANGED rvars

\* ------------------------------------------------------------------ recv_task
\* The text a client sends: the k-th text frame of connection p.
ClientText(p, k) == << p, k >>

\* room.rs 190-209: a text frame arrives; the snapshot of the relay.
RecvText(p) ==
    /\ recv_task[p] = "idle"
    /\ Load + 2 <= MaxLoad
    /\ frames' = [frames EXCEPT ![p] = @ + 1]
    /\ LET senders == Snapshot(rooms, room_id[p])
       IN  /\ recv_text' = [recv_text EXCEPT
                   ![p] = IF senders = {} THEN << >> ELSE ClientText(p, frames[p] + 1)]
           /\ recv_senders' = [recv_senders EXCEPT ![p] = senders]
           /\ recv_pending' = [recv_pending EXCEPT ![p] = senders]
           /\ recv_task' = [recv_task EXCEPT
                   ![p] = AfterSend(senders, {}, "relay_send", "relay_cleanup", "idle")]
    /\ UNCHANGED << rooms, next_connection_id, recv_dead, send_task, chan, wire,
                    skipped, write_errors >>
    /\ UNCHANGED hvars

\* room.rs 211-215: one turn of the send loop of the relay.
RelaySend(p, e) ==
    /\ recv_task[p] = "relay_send"
    /\ e \in recv_pending[p]
    /\ LET rest == recv_pending[p] \ {e}
           dead == DeadAfterSend(e, recv_dead[p])
           at == AfterSend(rest, dead, "relay_send", "relay_cleanup", "idle")
       IN  /\ chan' = ChanAfterSend(e, RelayPayload(recv_text[p]))
           /\ recv_pending' = [recv_pending EXCEPT ![p] = rest]
           /\ recv_dead' = [recv_dead EXCEPT ![p] = dead]
           /\ recv_senders' = [recv_senders EXCEPT ![p] = IF at = "idle" THEN {} ELSE @]
           /\ recv_text' = [recv_text EXCEPT ![p] = IF at = "idle" THEN << >> ELSE @]
           /\ recv_task' = [recv_task EXCEPT ![p] = at]
    /\ UNCHANGED << rooms, next_connection_id, send_task, wire, frames, skipped, write_errors >>
    /\ UNCHANGED hvars

\* room.rs 217-220: cleanup_dead_connections after the relay.
RelayCleanup(p) ==
    /\ recv_task[p] = "relay_cleanup"
    /\ rooms' = cleanup_dead_connections(rooms, room_id[p], recv_dead[p])
    /\ recv_dead' = [recv_dead EXCEPT ![p] = {}]
    /\ recv_senders' = [recv_senders EXCEPT ![p] = {}]
    /\ recv_text' = [recv_text EXCEPT ![p] = << >>]
    /\ recv_task' = [recv_task EXCEPT ![p] = "idle"]
    /\ UNCHANGED << next_connection_id, recv_pending, send_task, chan, wire, frames, skipped, write_errors >>
    /\ UNCHANGED hvars

\* A loop that is left at a frame that is not text.
AfterNonTextBreak == "ended"

\* room.rs 197, 221: the if let does not match and the while loop goes on.
AfterNonText == "idle"

\* room.rs 195-224: a frame that is not Message::Text (Binary, Ping, Pong, Close)
\* is read: nothing is sent.  The first such frame of a connection is recorded.
RecvNonText(p) ==
    /\ recv_task[p] = "idle"
    /\ IF skipped[p] = None
       THEN /\ Load + 2 <= MaxLoad
            /\ skipped' = [skipped EXCEPT ![p] = frames[p]]
       ELSE UNCHANGED skipped
    /\ recv_task' = [recv_task EXCEPT ![p] = AfterNonText]
    /\ UNCHANGED << rooms, next_connection_id, recv_text, recv_senders, recv_pending,
                    recv_dead, send_task, chan, wire, frames, write_errors >>
    /\ UNCHANGED hvars

\* room.rs 190-193: the stream ends (None) or yields an error; the loop is left.
RecvEnd(p) ==
    /\ recv_task[p] = "idle"
    /\ recv_task' = [recv_task EXCEPT ![p] = "ended"]
    /\ UNCHANGED << rooms, next_connection_id, recv_text, recv_senders, recv_pending,
                    recv_dead, send_task, chan, wire, frames, skipped, write_errors >>
    /\ UNCHANGED hvars

\* ------------------------------------------------------------------ specification
Next ==
    \/ \E p \in Procs, r \in RoomIds : Reserve(p, r)
    \/ \E p \in Procs : RejectNotify(p)
    \/ \E p \in Procs : JoinSnapshot(p)
    \/ \E p \in Procs : \E e \in pending[p] : JoinSend(p, e)
    \/ \E p \in Procs : JoinCleanup(p)
    \/ \E p \in Procs : LeaveSnapshot(p)
    \/ \E p \in Procs : \E e \in pending[p] : LeaveSend(p, e)
    \/ \E p \in Procs : LeaveCleanup(p)
    \/ \E p \in Procs : Remove(p)
    \/ \E p \in Procs : SendTaskDeliver(p)
    \/ \E p \in Procs : SendTaskWriteFail(p)
    \/ \E p \in Procs : SendTaskChannelClosed(p)
    \/ \E p \in Procs : RecvText(p)
    \/ \E p \in Procs : \E e \in recv_pending[p] : RelaySend(p, e)
    \/ \E p \in Procs : RelayCleanup(p)
    \/ \E p \in Procs : RecvNonText(p)
    \/ \E p \in Procs : RecvEnd(p)

Spec == Init /\ [][Next]_vars

\* The server after IdModulus - 2 connections have been admitted and torn down:
\* the registry is empty again and the id counter is two short of its wrap.
WrapInit ==
    /\ rooms = EmptyMap
    /\ next_connection_id = IdModulus - 2
    /\ pc = [p \in Procs |-> "connecting"]
    /\ room_id = [p \in Procs |-> 0]
    /\ reservation = [p \in Procs |-> [id |-> None, count |-> 0, mark |-> "X"]]
    /\ snapshot = [p \in Procs |-> {}]
    /\ pending = [p \in Procs |-> {}]
    /\ dead_connections = [p \in Procs |-> {}]
    /\ send_task = [p \in Procs |-> "unspawned"]
    /\ recv_task = [p \in Procs |-> "unspawned"]
    /\ recv_text = [p \in Procs |-> << >>]
    /\ recv_senders = [p \in Procs |-> {}]
    /\ recv_pending = [p \in Procs |-> {}]
    /\ recv_dead = [p \in Procs |-> {}]
    /\ chan = [p \in Procs |-> << >>]
    /\ wire = [p \in Procs |-> << >>]
    /\ frames = [p \in Procs |-> 0]
    /\ skipped = [p \in Procs |-> None]
    /\ write_errors = 0

WrapSpec == WrapInit /\ [][Next]_vars

\* The steps of the handler of connection p, and of the relay its recv_task runs:
\* lock holds and channel sends, none of which waits for the environment.
HandlerNext(p) ==
    \/ RejectNotify(p)
    \/ JoinSnapshot(p)
    \/ \E e \in pending[p] : JoinSend(p, e)
    \/ JoinCleanup(p)
    \/ LeaveSnapshot(p)
    \/ \E e \in pending[p] : LeaveSend(p, e)
    \/ LeaveCleanup(p)
    \/ Remove(p)

RelayNext(p) ==
    \/ \E e \in recv_pending[p] : RelaySend(p, e)
    \/ RelayCleanup(p)

\* The tokio scheduler runs every task that is ready and the mutex is fair (FIFO):
\* a handler or a relay that can take a step eventually takes it.  Nothing is
\* assumed of the clients and the transport.
Fairness == \A p \in Procs : WF_vars(HandlerNext(p)) /\ WF_vars(RelayNext(p))

FairSpec == Spec /\ Fairness

\* ------------------------------------------------------------------ properties
\* The connections of room r, and the handler a connection of the registry belongs to.
Members(r) == IF r \in DOMAIN rooms THEN DOMAIN rooms[r] ELSE {}

Admitted(p) == pc[p] \notin {"connecting", "rejected"} /\ reservation[p].id # None

Rejected(p) == pc[p] \in {"rejected", "closed"} /\ reservation[p].id = None

\* The handler p has just taken the lock of its reservation.
Reserved(p) == pc[p] = "connecting" /\ pc'[p] # "connecting"

\* C1: every room of the registry holds at most 2 connections, in every reachable
\* state and under every interleaving of joins, relays, cleanups and teardowns.
C1_Capacity == \A r \in DOMAIN rooms : Cardinality(DOMAIN rooms[r]) <= 2

\* C1 witness: two joiners raced on a room that held one connection; one was
\* admitted as its second member and has not broadcast yet, the other was rejected.
C1_Witness ==
    \E p, q \in Procs :
        /\ p # q /\ room_id[p] = room_id[q]
        /\ pc[p] = "joined" /\ reservation[p].count = 2
        /\ pc[q] = "rejected" /\ reservation[q].count = 2
        /\ Cardinality(Members(room_id[p])) = 2

\* C2: a room identifier is a key of the registry if and only if its room holds at
\* least one connection: no lock hold leaves an empty room behind.
C2_NoEmptyRoom ==
    \A r \in RoomIds : (r \in DOMAIN rooms) <=> (\E c \in ConnectionId : c \in Members(r))

\* C2 witness: a connection was admitted to a room and its teardown has removed the
\* last entry of that room, so the room is gone.
C2_Witness ==
    \E p \in Procs : Admitted(p) /\ pc[p] = "closed" /\ room_id[p] \notin DOMAIN rooms

\* C3: a reservation on an absent room is admitted with mark X; a reservation made
\* while that first connection is the only member is admitted with mark O; a
\* reservation made while two connections are members is rejected and changes nothing.
C3_Step ==
    \A p \in Procs :
        Reserved(p) =>
            LET r == room_id'[p]
                n == Cardinality(Members(r))
            IN  /\ r \notin DOMAIN rooms =>
                      /\ pc'[p] = "joined"
                      /\ reservation'[p].mark = "X"
                      /\ reservation'[p].id \in DOMAIN rooms'[r]
                      /\ rooms'[r][reservation'[p].id] = [tx |-> p, mark |-> "X"]
                /\ (n = 1 /\ \A c \in Members(r) : rooms[r][c].mark = "X") =>
                      /\ pc'[p] = "joined"
                      /\ reservation'[p].mark = "O"
                      /\ reservation'[p].id \in DOMAIN rooms'[r] \ DOMAIN rooms[r]
                      /\ rooms'[r][reservation'[p].id] = [tx |-> p, mark |-> "O"]
                /\ n = 2 =>
                      /\ pc'[p] = "rejected"
                      /\ reservation'[p].id = None
                      /\ rooms' = rooms

C3_FirstSecondFull == [][C3_Step]_vars

\* C3 witness: three reservations on one room: the first holds X, the second holds
\* O and the third was rejected while both were members.
C3_Witness ==
    \E p, q, t \in Procs :
        /\ room_id[p] = room_id[q] /\ room_id[q] = room_id[t]
        /\ Admitted(p) /\ reservation[p].mark = "X" /\ reservation[p].id \in Members(room_id[p])
        /\ Admitted(q) /\ reservation[q].mark = "O" /\ reservation[q].id \in Members(room_id[q])
        /\ Rejected(t)

\* C4: any two connections that are members of the same room at the same time have
\* different marks.
C4_DistinctMarks ==
    \A r \in DOMAIN rooms : \A c, d \in DOMAIN rooms[r] :
        c # d => rooms[r][c].mark # rooms[r][d].mark

\* The steps of the fan-outs: the handler p takes its join snapshot, sends to one
\* entry of its join or leave snapshot; the recv_task of p reads a text frame,
\* sends to one entry of its relay snapshot.
JoinSnapStep(p) == pc[p] = "joined" /\ pc'[p] # "joined"

JoinSendStep(p) == pc[p] = "join_send" /\ pending'[p] # pending[p]

LeaveSendStep(p) == pc[p] = "leave_send" /\ pending'[p] # pending[p]

RecvTextStep(p) == frames'[p] # frames[p]

RelaySendStep(p) == recv_task[p] = "relay_send" /\ recv_pending'[p] # recv_pending[p]

\* The step has put payload at the back of the channel of connection q.
EnqueuedTo(q, payload) == chan'[q] = Append(chan[q], payload)

\* The join envelope of recipient q that names n connections.
JoinEnvelope(r, n, q) ==
    RoomStateResponse(r, n, "Someone joined the room", TRUE, to_string(reservation[q].mark))

\* The entry of handler p in a snapshot.
OwnEntry(p) == [cid |-> reservation[p].id, tx |-> p, mark |-> reservation[p].mark]

\* C5 as stated: the join snapshot is the membership of the room and holds the
\* joiner, and a join envelope with success=true and the recipient's own mark is
\* enqueued for every entry of the snapshot.
C5_OriginalStep ==
    \A p \in Procs :
        /\ JoinSnapStep(p) =>
              /\ pending'[p] = Snapshot(rooms, room_id[p])
              /\ OwnEntry(p) \in pending'[p]
        /\ JoinSendStep(p) =>
              \A e \in pending[p] \ pending'[p] :
                  \E n \in 1 .. 2 : EnqueuedTo(e.tx, JoinEnvelope(room_id[p], n, e.tx))

C5_Original == [][C5_OriginalStep]_vars

\* C5 amended: the join snapshot is the membership of the room and holds the
\* joiner; a join envelope with success=true and the recipient's own mark is
\* enqueued for every entry of the snapshot whose channel is still open, the
\* joiner's own always; an entry whose channel is closed gets nothing and is
\* marked dead.
C5_Step ==
    \A p \in Procs :
        /\ JoinSnapStep(p) =>
              /\ pending'[p] = Snapshot(rooms, room_id[p])
              /\ OwnEntry(p) \in pending'[p]
        /\ JoinSendStep(p) =>
              \A e \in pending[p] \ pending'[p] :
                  IF RxDropped(e.tx)
                  THEN /\ chan' = chan
                       /\ e.tx # p
                       /\ e.cid \in dead_connections'[p]
                  ELSE \E n \in 1 .. 2 : EnqueuedTo(e.tx, JoinEnvelope(room_id[p], n, e.tx))

C5_JoinBroadcast == [][C5_Step]_vars

\* C5 witness: a second joiner has finished its join broadcast: its peer holds an
\* envelope with the peer's mark x, the joiner one with its own mark o.
C5_Witness ==
    \E p, q \in Procs :
        /\ p # q /\ pc[p] = "select"
        /\ reservation[p].mark = "O" /\ reservation[q].mark = "X"
        /\ \E i \in 1 .. Len(chan[p]) : chan[p][i] = JoinEnvelope(room_id[p], 2, p)
        /\ \E i \in 1 .. Len(chan[q]) : chan[q][i] = JoinEnvelope(room_id[p], 2, q)
        /\ chan[p][1].my_mark = "o" /\ chan[q][Len(chan[q])].my_mark = "x"

\* C6 as stated: the num_connections of every join envelope a joiner issues is the
\* count right after its reservation (the count before the join plus one).
C6_OriginalStep ==
    \A p \in Procs :
        JoinSendStep(p) =>
            \A e \in pending[p] \ pending'[p] :
                chan'[e.tx] # chan[e.tx] =>
                    /\ Len(chan'[e.tx]) = Len(chan[e.tx]) + 1
                    /\ chan'[e.tx][Len(chan'[e.tx])].num_connections = reservation[p].count

C6_Original == [][C6_OriginalStep]_vars

\* C6 amended: the num_connections of every join envelope a joiner issues is the
\* number of connections of the room when the joiner takes its join snapshot: the
\* snapshot has as many entries as the room has members, it is not changed by the
\* sends, and every envelope carries its size.
C6_Step ==
    \A p \in Procs :
        /\ JoinSnapStep(p) =>
              /\ Cardinality(snapshot'[p]) = Cardinality(Members(room_id[p]))
              /\ Cardinality(snapshot'[p]) \in 1 .. 2
        /\ JoinSendStep(p) =>
              /\ snapshot'[p] \in {snapshot[p], {}}
              /\ \A e \in pending[p] \ pending'[p] :
                    chan'[e.tx] # chan[e.tx] =>
                        /\ Len(chan'[e.tx]) = Len(chan[e.tx]) + 1
                        /\ chan'[e.tx][Len(chan'[e.tx])].num_connections
                               = Cardinality(snapshot[p])

C6_SnapshotCount == [][C6_Step]_vars

\* C6 witness: the first connection of a fresh room (count 1 at its reservation)
\* is sending join envelopes from a snapshot of 2 entries: a second joiner
\* reserved in between.
C6_Witness ==
    \E p \in Procs :
        /\ pc[p] = "join_send"
        /\ reservation[p].count = 1
        /\ Cardinality(snapshot[p]) = 2
        /\ pending[p] # snapshot[p]

\* C7: a join attempt on a room of 2 connections is rejected: the reservation
\* leaves the registry and the id counter as they are and binds no ConnectionId; the
\* joiner is sent one envelope (success=false, "Room is full", the count read) and
\* then a close; no task, broadcast or removal ever runs for it.
C7_Inv ==
    \A p \in Procs :
        Rejected(p) =>
            /\ reservation[p].count = 2
            /\ wire[p] = IF pc[p] = "closed"
                         THEN << RoomStateResponse(room_id[p], 2, "Room is full", FALSE, "x"),
                                 CloseFrame >>
                         ELSE << >>
            /\ send_task[p] = "unspawned" /\ recv_task[p] = "unspawned"
            /\ snapshot[p] = {} /\ pending[p] = {} /\ recv_senders[p] = {}
            /\ chan[p] = << >>
            /\ \A r \in DOMAIN rooms : \A c \in DOMAIN rooms[r] : rooms[r][c].tx # p
            /\ \A q \in Procs : \A e \in snapshot[q] \cup recv_senders[q] : e.tx # p

C7_Step ==
    \A p \in Procs :
        /\ (Reserved(p) /\ Cardinality(Members(room_id'[p])) = 2) =>
              /\ pc'[p] = "rejected"
              /\ reservation'[p].id = None
              /\ rooms' = rooms
              /\ next_connection_id' = next_connection_id
        /\ Rejected(p) => (Rejected(p))' /\ (pc'[p] # pc[p] => rooms' = rooms)

C7_RoomFull == []C7_Inv /\ [][C7_Step]_vars

\* C7 witness: a rejected joiner has been notified and closed while the two
\* members of the room are still there.
C7_Witness ==
    \E p \in Procs :
        /\ Rejected(p) /\ pc[p] = "closed" /\ Len(wire[p]) = 2
        /\ Cardinality(Members(room_id[p])) = 2

\* The payload is a relayed text frame that connection p sent.
IsTextOf(payload, p) == payload.response_type = "none" /\ payload.text[1] = p

\* The registry holds an entry of handler p in the room p joined.
InRoom(p) ==
    /\ room_id[p] \in DOMAIN rooms
    /\ reservation[p].id \in DOMAIN rooms[room_id[p]]
    /\ rooms[room_id[p]][reservation[p].id].tx = p

\* C8 as stated: every text frame that is read is relayed as it is, without an
\* envelope, to every member of the room, and the sender is one of the recipients.
C8_OriginalStep ==
    \A p \in Procs :
        /\ RecvTextStep(p) =>
              /\ recv_pending'[p] = Snapshot(rooms, room_id[p])
              /\ OwnEntry(p) \in recv_pending'[p]
        /\ RelaySendStep(p) =>
              \A e \in recv_pending[p] \ recv_pending'[p] :
                  EnqueuedTo(e.tx, TextPayload(ClientText(p, frames[p])))

C8_Original == [][C8_OriginalStep]_vars

\* C8 amended: every text frame that is read is relayed as it is, without an
\* envelope, to every connection that is a member of the room when the frame is
\* read and whose channel is still open at the send; a member whose channel is
\* closed gets nothing and is marked dead; the sender is one of the recipients
\* if it is still a member when the frame is read and its outbound loop is running.
C8_Step ==
    \A p \in Procs :
        /\ RecvTextStep(p) =>
              /\ recv_pending'[p] = Snapshot(rooms, room_id[p])
              /\ InRoom(p) => OwnEntry(p) \in recv_pending'[p]
              /\ recv_pending'[p] # {} => recv_text'[p] = ClientText(p, frames'[p])
        /\ RelaySendStep(p) =>
              \A e \in recv_pending[p] \ recv_pending'[p] :
                  IF RxDropped(e.tx)
                  THEN /\ chan' = chan
                       /\ e.cid \in recv_dead'[p]
                  ELSE /\ EnqueuedTo(e.tx, TextPayload(ClientText(p, frames[p])))
                       /\ \A q \in Procs \ {e.tx} : chan'[q] = chan[q]

C8_Relay == [][C8_Step]_vars

\* C8 witness: the text frame of a connection sits unwrapped in the channel of its
\* peer and in its own channel.
C8_Witness ==
    \E p, q \in Procs :
        /\ p # q
        /\ \E i \in 1 .. Len(chan[p]) : chan[p][i] = TextPayload(ClientText(p, 1))
        /\ \E i \in 1 .. Len(chan[q]) : chan[q][i] = TextPayload(ClientText(p, 1))

\* C9: relayed frames keep the order of their sender.  In every channel the frames
\* of one sender are queued in the order in which they were read; a frame that is
\* still to be sent is the newest its sender has read; and the outbound loop hands
\* out the head of its queue, so when it hands out a frame no older frame of the
\* same sender is left behind in the queue or still on its way.
C9_Inv ==
    \A p, q \in Procs :
        /\ \A i, j \in 1 .. Len(chan[q]) :
              (i < j /\ IsTextOf(chan[q][i], p) /\ IsTextOf(chan[q][j], p))
                  => chan[q][i].text[2] < chan[q][j].text[2]
        /\ \A i \in 1 .. Len(chan[q]) :
              IsTextOf(chan[q][i], p) => chan[q][i].text[2] <= frames[p]
        /\ recv_task[p] = "relay_send" =>
              /\ recv_text[p] = ClientText(p, frames[p])
              /\ \A e \in recv_pending[p] : \A i \in 1 .. Len(chan[e.tx]) :
                    IsTextOf(chan[e.tx][i], p) => chan[e.tx][i].text[2] < frames[p]

C9_Step ==
    \A q \in Procs :
        (send_task[q] = "running" /\ Len(chan'[q]) < Len(chan[q]) /\ send_task'[q] = "running")
            => /\ chan'[q] = Tail(chan[q])
               /\ \A p \in Procs :
                     IsTextOf(Head(chan[q]), p) =>
                         /\ \A i \in 1 .. Len(chan'[q]) :
                               IsTextOf(chan'[q][i], p)
                                   => Head(chan[q]).text[2] < chan'[q][i].text[2]
                         /\ (recv_task[p] = "relay_send" /\ \E e \in recv_pending[p] : e.tx = q)
                               => Head(chan[q]).text[2] < recv_text[p][2]

C9_SenderOrder == []C9_Inv /\ [][C9_Step]_vars

\* C9 witness: two frames of one sender wait in the channel of its peer, the first
\* in front of the second.
C9_Witness ==
    \E p, q \in Procs :
        /\ p # q
        /\ \E i, j \in 1 .. Len(chan[q]) :
              /\ i < j
              /\ chan[q][i] = TextPayload(ClientText(p, 1))
              /\ chan[q][j] = TextPayload(ClientText(p, 2))

\* C10: the message of a leave envelope names the mark of the connection that
\* leaves.
C10_Step ==
    \A p \in Procs :
        LeaveSendStep(p) =>
            \A e \in pending[p] \ pending'[p] :
                chan'[e.tx] # chan[e.tx] =>
                    /\ Len(chan'[e.tx]) = Len(chan[e.tx]) + 1
                    /\ chan'[e.tx][Len(chan'[e.tx])].message
                           = LeaveMessage(to_string(reservation[p].mark))

C10_NamesDeparting == [][C10_Step]_vars

\* The handler p takes the snapshot of its leave broadcast.
LeaveSnapStep(p) == pc[p] = "select" /\ pc'[p] # "select"

\* The leave snapshot is not changed by the sends and every leave envelope carries
\* its size.
LeaveCountIsSnapshotSize(p) ==
    LeaveSendStep(p) =>
        /\ snapshot'[p] \in {snapshot[p], {}}
        /\ \A e \in pending[p] \ pending'[p] :
              chan'[e.tx] # chan[e.tx] =>
                  /\ Len(chan'[e.tx]) = Len(chan[e.tx]) + 1
                  /\ chan'[e.tx][Len(chan'[e.tx])].num_connections = Cardinality(snapshot[p])

\* C11 as stated: the num_connections of every leave envelope is the number of
\* members of the room at the leave snapshot minus one.
C11_OriginalStep ==
    \A p \in Procs :
        /\ LeaveSnapStep(p) =>
              Cardinality(snapshot'[p]) = Cardinality(Members(room_id[p])) - 1
        /\ LeaveCountIsSnapshotSize(p)

C11_Original == [][C11_OriginalStep]_vars

\* C11 amended: the num_connections of every leave envelope is the number of
\* members of the room at the leave snapshot other than the departing connection:
\* the size minus one while the departing connection is still a member, the size
\* itself when another connection's fan-out has already reaped it.
C11_Step ==
    \A p \in Procs :
        /\ LeaveSnapStep(p) =>
              /\ Cardinality(snapshot'[p])
                     = Cardinality(Members(room_id[p]) \ {reservation[p].id})
              /\ Cardinality(snapshot'[p])
                     = IF InRoom(p) THEN Cardinality(Members(room_id[p])) - 1
                                    ELSE Cardinality(Members(room_id[p]))
        /\ LeaveCountIsSnapshotSize(p)

C11_LeaveCount == [][C11_Step]_vars

\* C11 witness: a connection that was reaped before its teardown has taken its
\* leave snapshot of a room of one member and is about to tell that member that 1
\* connection is left.
C11_Witness ==
    \E p \in Procs :
        /\ pc[p] = "leave_send" /\ ~InRoom(p)
        /\ pending[p] = snapshot[p]
        /\ Cardinality(snapshot[p]) = 1
        /\ Cardinality(Members(room_id[p])) = 1

\* The handler p takes a step.
HandlerStep(p) == pc'[p] # pc[p] \/ pending'[p] # pending[p]

\* C12: on the teardown of an admitted connection the leave snapshot holds the
\* members of the room other than the departing connection; a leave envelope is
\* enqueued only for an entry of that snapshot, never for the departing connection,
\* and carries the recipient's own mark; the teardown touches the departing
\* connection's entry only in its last lock hold, when every entry of the snapshot
\* has been visited.
C12_Inv ==
    \A p \in Procs :
        /\ pc[p] \in {"leave_send", "leave_cleanup", "remove"} =>
              /\ \A e \in snapshot[p] \cup pending[p] : e.tx # p /\ e.cid # reservation[p].id
              /\ reservation[p].id \notin dead_connections[p]
        /\ pc[p] = "remove" => pending[p] = {} /\ dead_connections[p] = {}

C12_Step ==
    \A p \in Procs :
        /\ LeaveSnapStep(p) =>
              /\ pending'[p] = Snapshot(rooms, room_id[p]) \ {OwnEntry(p)}
              /\ snapshot'[p] = pending'[p]
              /\ rooms' = rooms /\ chan' = chan
        /\ LeaveSendStep(p) =>
              /\ rooms' = rooms
              /\ chan'[p] = chan[p]
              /\ \A e \in pending[p] \ pending'[p] :
                    /\ e \in snapshot[p]
                    /\ \A q \in Procs \ {e.tx} : chan'[q] = chan[q]
                    /\ chan'[e.tx] # chan[e.tx] =>
                          /\ Len(chan'[e.tx]) = Len(chan[e.tx]) + 1
                          /\ chan'[e.tx][Len(chan'[e.tx])].success = TRUE
                          /\ chan'[e.tx][Len(chan'[e.tx])].my_mark
                                 = to_string(reservation[e.tx].mark)
        /\ (HandlerStep(p) /\ InRoom(p) /\ ~InRoom(p)') =>
              /\ pc[p] = "remove" /\ pc'[p] = "closed"
              /\ pending[p] = {}
        /\ (pc[p] = "remove" /\ pc'[p] # "remove") =>
              /\ pc'[p] = "closed"
              /\ rooms' = RemoveConnection(rooms, room_id[p], reservation[p].id)
              /\ chan' = chan

Rank(at) ==
    CASE at = "connecting" -> 0
      [] at = "rejected" -> 1
      [] at = "joined" -> 1
      [] at = "join_send" -> 2
      [] at = "join_cleanup" -> 3
      [] at = "select" -> 4
      [] at = "leave_send" -> 5
      [] at = "leave_cleanup" -> 6
      [] at = "remove" -> 7
      [] at = "closed" -> 8

\* One of the two relay loops of connection p has ended.
LoopEnded(p) == send_task[p] = "ended" \/ recv_task[p] = "ended"

\* C13: the session of an admitted connection goes through exactly one Leaving
\* transition.  The leave snapshot is taken only when one of the two loops has
\* ended; the handler never goes back, so it takes one leave snapshot and makes one
\* removal, also when the second loop ends later or both have ended; and under fair
\* scheduling a session one of whose loops has ended does reach its removal.
C13_Inv ==
    \A p \in Procs :
        /\ (Admitted(p) /\ Rank(pc[p]) > Rank("select")) => LoopEnded(p)
        /\ LoopEnded(p) => Admitted(p) /\ Rank(pc[p]) >= Rank("select")

C13_Step ==
    \A p \in Procs :
        /\ Rank(pc'[p]) >= Rank(pc[p])
        /\ LeaveSnapStep(p) => LoopEnded(p)
        /\ (Admitted(p) /\ InRoom(p) /\ ~InRoom(p)' /\ HandlerStep(p)) =>
              pc[p] = "remove" /\ pc'[p] = "closed"
        /\ LoopEnded(p) => LoopEnded(p)'

C13_Terminates ==
    \A p \in Procs : LoopEnded(p) ~> (pc[p] = "closed" /\ ~InRoom(p))

C13_OneLeaving == []C13_Inv /\ [][C13_Step]_vars /\ C13_Terminates

\* C13 witness: a session is over after both of its loops have ended: the peer
\* holds one leave envelope and the entry is gone.
C13_Witness ==
    \E p, q \in Procs :
        /\ p # q /\ room_id[p] = room_id[q]
        /\ pc[p] = "closed" /\ Admitted(p) /\ ~InRoom(p)
        /\ send_task[p] = "ended" /\ recv_task[p] = "ended"
        /\ pc[q] = "join_send" /\ send_task[q] = "unspawned" /\ InRoom(q)
        /\ Len(chan[q]) = 2
        /\ chan[q][2] = LeavePayload(room_id[q], {OwnEntry(q)}, OwnEntry(q))

\* The session of the admitted connection p is over: its entry has been removed.
Closed(p) == Admitted(p) /\ pc[p] = "closed"

\* C14: Closed is terminal.  Once the teardown of an admitted connection has
\* removed its entry, its inbound loop relays no text frame to any channel and
\* changes the registry no more, and nothing more is enqueued on its channel.
C14_Step ==
    \A p \in Procs :
        Closed(p) =>
            /\ RelaySendStep(p) => chan' = chan
            /\ recv_task[p] # recv_task'[p] => rooms' = rooms
            /\ Len(chan'[p]) <= Len(chan[p])

C14_ClosedTerminal == [][C14_Step]_vars

\* The recv_task of p reads its first frame that is not text.
RecvNonTextStep(p) == skipped[p] = None /\ skipped'[p] # None

\* The recv_task of p leaves its loop.
RecvEndStep(p) == recv_task[p] # "ended" /\ recv_task'[p] = "ended"

\* C15 as stated: a frame that is not text ends the inbound loop.
C15_OriginalStep == \A p \in Procs : RecvNonTextStep(p) => recv_task'[p] = "ended"

C15_Original == [][C15_OriginalStep]_vars

\* C15 amended: a frame that is not text is skipped: the inbound loop stays in
\* its loop, ready for the next frame, and nothing is relayed or changed in the
\* registry; the loop is left only when the stream ends or yields an error, never
\* in a step that reads a frame.
C15_Step ==
    \A p \in Procs :
        /\ RecvNonTextStep(p) =>
              /\ recv_task[p] = "idle" /\ recv_task'[p] = "idle"
              /\ rooms' = rooms /\ chan' = chan
              /\ pc' = pc /\ send_task' = send_task
        /\ RecvEndStep(p) =>
              /\ recv_task[p] = "idle"
              /\ frames' = frames /\ skipped' = skipped

C15_NonTextSkipped == [][C15_Step]_vars

\* C15 witness: a connection sent a frame that is not text before any text frame,
\* and its first text frame has since been read and relayed to its peer: the loop
\* went on after the frame that is not text.
C15_Witness ==
    \E p, q \in Procs :
        /\ p # q
        /\ skipped[p] = 0 /\ frames[p] = 1
        /\ recv_task[p] = "idle"
        /\ \E i \in 1 .. Len(chan[q]) : chan[q][i] = TextPayload(ClientText(p, 1))

\* Every connection that was admitted to room r has lost one of its loops.
AllDisconnected(r) == \A p \in Procs : (Admitted(p) /\ room_id[p] = r) => LoopEnded(p)

\* No connection will be accepted any more.
NoMoreJoins == \A p \in Procs : pc[p] = "connecting" => Load + 4 > MaxLoad

\* C16: under fair scheduling of the handlers, an admitted connection one of whose
\* loops has ended is eventually out of its room, and a room all of whose
\* connections have disconnected, when no more joins come, is eventually out of
\* the registry.
C16_Removed == \A p \in Procs : (Admitted(p) /\ LoopEnded(p)) ~> ~InRoom(p)

C16_RoomGone ==
    \A r \in RoomIds :
        (r \in DOMAIN rooms /\ AllDisconnected(r) /\ NoMoreJoins) ~> (r \notin DOMAIN rooms)

C16_Liveness == C16_Removed /\ C16_RoomGone

\* C16 witness: the two members of a room have both disconnected and been torn
\* down, no join can follow, and the room is gone.
C16_Witness ==
    \E p, q \in Procs :
        /\ p # q /\ room_id[p] = room_id[q]
        /\ Closed(p) /\ Closed(q)
        /\ recv_task[p] = "ended" /\ recv_task[q] = "ended"
        /\ NoMoreJoins
        /\ room_id[p] \notin DOMAIN rooms

\* The payload is an envelope (of a join or of a leave).
IsEnvelope(payload) == payload.response_type = "room_state"

\* C17: a mark is assigned once.  The entry of the registry that feeds the channel
\* of a connection is the one made at its reservation and holds the mark assigned
\* there, every copy of it in a snapshot too, and every envelope in the channel of
\* a connection carries that mark; the reservation of an admitted connection and
\* the entries of the registry are never changed, only removed.
C17_Inv ==
    /\ \A r \in DOMAIN rooms : \A c \in DOMAIN rooms[r] :
          LET p == rooms[r][c].tx
          IN  room_id[p] = r /\ reservation[p].id = c /\ rooms[r][c].mark = reservation[p].mark
    /\ \A p \in Procs :
          /\ \A e \in snapshot[p] \cup pending[p] \cup recv_senders[p] \cup recv_pending[p] :
                e.cid = reservation[e.tx].id /\ e.mark = reservation[e.tx].mark
          /\ \A i \in 1 .. Len(chan[p]) :
                IsEnvelope(chan[p][i]) => chan[p][i].my_mark = to_string(reservation[p].mark)

C17_Step ==
    /\ \A p \in Procs :
          /\ Admitted(p) => reservation'[p] = reservation[p] /\ room_id'[p] = room_id[p]
          /\ Len(chan'[p]) > Len(chan[p]) =>
                /\ chan'[p] = Append(chan[p], chan'[p][Len(chan'[p])])
                /\ IsEnvelope(chan'[p][Len(chan'[p])]) =>
                      chan'[p][Len(chan'[p])].my_mark = to_string(reservation[p].mark)
    /\ \A r \in DOMAIN rooms : \A c \in DOMAIN rooms[r] :
          (r \in DOMAIN rooms' /\ c \in DOMAIN rooms'[r]) => rooms'[r][c] = rooms[r][c]

C17_MarkImmutable == []C17_Inv /\ [][C17_Step]_vars

\* C17 witness: the second member of a room holds a leave envelope and a join
\* envelope in its channel, both with its mark o, the mark of its entry.
C17_Witness ==
    \E q \in Procs :
        /\ InRoom(q) /\ reservation[q].mark = "O"
        /\ rooms[room_id[q]][reservation[q].id].mark = "O"
        /\ Len(chan[q]) = 2
        /\ IsEnvelope(chan[q][1]) /\ IsEnvelope(chan[q][2])
        /\ chan[q][1].message # chan[q][2].message
        /\ chan[q][1].my_mark = "o" /\ chan[q][2].my_mark = "o"

\* The counter has not wrapped since the admitted connections got their ids.
NotWrapped == \A q \in Procs : Admitted(q) => reservation[q].id < next_connection_id

\* C18: an admitted join takes the value of next_connection_id as its id and
\* moves the counter on by 1 modulo its range; a rejected join and every other step
\* leave the counter alone; as long as the counter has not wrapped the new id is
\* greater than every id handed out before; and no two connections carry the same
\* id, nor is an id a key of two rooms.
C18_Inv ==
    /\ \A p, q \in Procs :
          (p # q /\ Admitted(p) /\ Admitted(q)) => reservation[p].id # reservation[q].id
    /\ \A r, t \in DOMAIN rooms : r # t => DOMAIN rooms[r] \cap DOMAIN rooms[t] = {}
    /\ next_connection_id \in ConnectionId

C18_Step ==
    /\ (\A p \in Procs : ~Reserved(p)) => next_connection_id' = next_connection_id
    /\ \A p \in Procs :
          Reserved(p) =>
              IF pc'[p] = "joined"
              THEN /\ reservation'[p].id = next_connection_id
                   /\ next_connection_id' = (next_connection_id + 1) % IdModulus
                   /\ NotWrapped =>
                         \A q \in Procs : Admitted(q) => reservation[q].id < reservation'[p].id
              ELSE next_connection_id' = next_connection_id

C18_IdsNeverReused == []C18_Inv /\ [][C18_Step]_vars

\* C18 witness: the counter has wrapped between two admissions: one connection
\* holds the greatest id, the next one the id 0, and the counter is at 1.
C18_Witness ==
    \E p, q \in Procs :
        /\ Admitted(p) /\ Admitted(q)
        /\ reservation[p].id = IdModulus - 1
        /\ reservation[q].id = 0
        /\ next_connection_id = 1

\* The send of a fan-out to the entry e, with the dead ids before and after it:
\* a closed channel gets nothing and its id is marked dead, an open one gets one
\* more payload and no id is marked.
SendOutcome(e, dead, dead_after) ==
    IF RxDropped(e.tx)
    THEN chan' = chan /\ dead_after = dead \cup {e.cid}
    ELSE /\ Len(chan'[e.tx]) = Len(chan[e.tx]) + 1
         /\ \A q \in Procs \ {e.tx} : chan'[q] = chan[q]
         /\ dead_after = dead

\* The fan-out goes on with the entries that are left whether or not a send has
\* failed; it runs the cleanup, after the last entry, if and only if one has.
GoesOn(rest, dead_after, at, loop, cleanup, next) ==
    at = (IF rest # {} THEN loop ELSE IF dead_after # {} THEN cleanup ELSE next)

\* The cleanup of the dead ids of a fan-out on room r: they are out of the room,
\* the other members stay, the room is deleted if it is left empty, and the other
\* rooms are as they were.
CleanupOutcome(r, dead) ==
    /\ dead # {}
    /\ (Members(r))' = Members(r) \ dead
    /\ (r \in DOMAIN rooms') <=> (Members(r) \ dead # {})
    /\ \A t \in RoomIds \ {r} :
          /\ (t \in DOMAIN rooms') <=> (t \in DOMAIN rooms)
          /\ t \in DOMAIN rooms => rooms'[t] = rooms[t]

\* C19: in the join, relay and leave fan-outs a send that fails does not end the
\* send loop: every entry of the snapshot is visited, the ones whose channel is
\* open get the payload, the ones whose channel is closed are marked dead; the
\* cleanup that ends such a fan-out takes every dead id out of the room and
\* deletes the room if it is left empty.
C19_Inv ==
    \A p \in Procs :
        /\ pc[p] \in {"join_cleanup", "leave_cleanup"} =>
              pending[p] = {} /\ dead_connections[p] # {}
        /\ recv_task[p] = "relay_cleanup" => recv_pending[p] = {} /\ recv_dead[p] # {}
        /\ pending[p] \subseteq snapshot[p] /\ recv_pending[p] \subseteq recv_senders[p]
        /\ dead_connections[p] \subseteq { e.cid : e \in snapshot[p] \ pending[p] }
        /\ recv_dead[p] \subseteq { e.cid : e \in recv_senders[p] \ recv_pending[p] }

C19_Step ==
    \A p \in Procs :
        /\ JoinSendStep(p) =>
              \E e \in pending[p] :
                  /\ pending'[p] = pending[p] \ {e}
                  /\ SendOutcome(e, dead_connections[p], dead_connections'[p])
                  /\ GoesOn(pending'[p], dead_connections'[p], pc'[p],
                            "join_send", "join_cleanup", "select")
        /\ LeaveSendStep(p) =>
              \E e \in pending[p] :
                  /\ pending'[p] = pending[p] \ {e}
                  /\ SendOutcome(e, dead_connections[p], dead_connections'[p])
                  /\ GoesOn(pending'[p], dead_connections'[p], pc'[p],
                            "leave_send", "leave_cleanup", "remove")
        /\ RelaySendStep(p) =>
              \E e \in recv_pending[p] :
                  /\ recv_pending'[p] = recv_pending[p] \ {e}
                  /\ SendOutcome(e, recv_dead[p], recv_dead'[p])
                  /\ GoesOn(recv_pending'[p], recv_dead'[p], recv_task'[p],
                            "relay_send", "relay_cleanup", "idle")
        /\ (pc[p] = "join_cleanup" /\ pc'[p] # "join_cleanup") =>
              CleanupOutcome(room_id[p], dead_connections[p]) /\ pc'[p] = "select"
        /\ (pc[p] = "leave_cleanup" /\ pc'[p] # "leave_cleanup") =>
              CleanupOutcome(room_id[p], dead_connections[p]) /\ pc'[p] = "remove"
        /\ (recv_task[p] = "relay_cleanup" /\ recv_task'[p] # "relay_cleanup") =>
              CleanupOutcome(room_id[p], recv_dead[p]) /\ recv_task'[p] = "idle"

C19_FanOutGoesOn == []C19_Inv /\ [][C19_Step]_vars

\* C19 witness: a join fan-out over two members has failed on the first member,
\* whose outbound loop had ended and whose teardown has not begun, and has still
\* delivered to the joiner; its cleanup has taken the first member out of the room.
C19_Witness ==
    \E p, q \in Procs :
        /\ p # q /\ room_id[p] = room_id[q]
        /\ pc[q] = "select" /\ send_task[q] = "ended" /\ ~InRoom(q)
        /\ pc[p] = "select" /\ InRoom(p) /\ reservation[p].count = 2
        /\ Members(room_id[p]) = {reservation[p].id}
        /\ chan[p] = << JoinEnvelope(room_id[p], 2, p) >>

\* The ConnectionIds handed out so far.
IssuedIds == { reservation[p].id : p \in { q \in Procs : Admitted(q) } }

\* C20: cleanup and removal are idempotent.  On the registry of any reachable
\* state, for any room id and any ids handed out so far: a cleanup (a removal)
\* whose ids cover all members of the room deletes the room; a second run with the
\* same arguments changes nothing more; and a run for ids none of which is in
\* the room, or for a room that is absent, leaves the registry as it is.  The
\* cleanups and removals the handlers run are such runs.
C20_Inv ==
    \A r \in RoomIds :
        /\ \A dead \in SUBSET IssuedIds :
              LET once == cleanup_dead_connections(rooms, r, dead)
                  twice == cleanup_dead_connections(once, r, dead)
              IN  /\ (dead # {} /\ Members(r) \subseteq dead) => r \notin DOMAIN once
                  /\ twice = once
                  /\ (r \notin DOMAIN rooms \/ Members(r) \cap dead = {}) => once = rooms
        /\ \A id \in IssuedIds :
              LET once == RemoveConnection(rooms, r, id)
                  twice == RemoveConnection(once, r, id)
              IN  /\ Members(r) \subseteq {id} => r \notin DOMAIN once
                  /\ twice = once
                  /\ (r \notin DOMAIN rooms \/ id \notin Members(r)) => once = rooms

C20_Step ==
    \A p \in Procs :
        /\ (pc[p] \in {"join_cleanup", "leave_cleanup"} /\ pc'[p] # pc[p]) =>
              /\ rooms' = cleanup_dead_connections(rooms, room_id[p], dead_connections[p])
              /\ dead_connections[p] \subseteq IssuedIds
              /\ Members(room_id[p]) \cap dead_connections[p] = {} => rooms' = rooms
        /\ (recv_task[p] = "relay_cleanup" /\ recv_task'[p] # "relay_cleanup") =>
              /\ rooms' = cleanup_dead_connections(rooms, room_id[p], recv_dead[p])
              /\ recv_dead[p] \subseteq IssuedIds
              /\ Members(room_id[p]) \cap recv_dead[p] = {} => rooms' = rooms
        /\ (pc[p] = "remove" /\ pc'[p] # "remove") =>
              /\ rooms' = RemoveConnection(rooms, room_id[p], reservation[p].id)
              /\ ~InRoom(p) => rooms' = rooms

C20_Idempotent == []C20_Inv /\ [][C20_Step]_vars

\* C20 witness: the only member of a room was reaped by the cleanup of its own
\* relay, which deleted the room; its teardown, which has not removed anything
\* yet, is about to run the removal for the same id on the absent room.
C20_Witness ==
    \E p \in Procs :
        /\ \A q \in Procs \ {p} : pc[q] = "connecting"
        /\ pc[p] = "remove" /\ send_task[p] = "ended"
        /\ frames[p] = 1 /\ recv_task[p] = "idle"
        /\ room_id[p] \notin DOMAIN rooms
        /\ rooms = EmptyMap

\* The step is the last lock hold of the teardown of q.
OwnRemoval(q) == pc[q] = "remove" /\ pc'[q] = "closed"

\* The step is the cleanup of a fan-out on the room of q whose send to q failed.
ReapedBy(p, q) ==
    /\ room_id[p] = room_id[q]
    /\ \/ /\ pc[p] \in {"join_cleanup", "leave_cleanup"} /\ pc'[p] # pc[p]
          /\ reservation[q].id \in dead_connections[p]
       \/ /\ recv_task[p] = "relay_cleanup" /\ recv_task'[p] # "relay_cleanup"
          /\ reservation[q].id \in recv_dead[p]

\* Both relay loops of q are running, or are still to be spawned.
BothLoopsUp(q) == send_task[q] # "ended" /\ recv_task[q] # "ended"

\* C21: faults are connection-scoped.  An id is marked dead only when the
\* outbound loop of its connection has ended; an entry leaves the registry only in
\* the last lock hold of its own teardown or in the cleanup of a fan-out that had
\* marked it dead; the entry of a connection with both loops up is never removed,
\* whatever the others do; and a step changes the membership of one room at most.
C21_Inv ==
    \A p \in Procs : \A c \in dead_connections[p] \cup recv_dead[p] :
        \E q \in Procs :
            /\ Admitted(q) /\ reservation[q].id = c /\ room_id[q] = room_id[p]
            /\ send_task[q] = "ended"

C21_Step ==
    /\ \A q \in Procs :
          /\ (InRoom(q) /\ ~InRoom(q)') =>
                \/ OwnRemoval(q)
                \/ send_task[q] = "ended" /\ \E p \in Procs : ReapedBy(p, q)
          /\ (InRoom(q) /\ BothLoopsUp(q)) => InRoom(q)'
    /\ \A r, t \in RoomIds :
          (r # t /\ (Members(r))' # Members(r)) => (Members(t))' = Members(t)

C21_ConnectionScoped == []C21_Inv /\ [][C21_Step]_vars

\* C21 witness: a connection whose outbound loop had failed was torn down, which
\* deleted its room; a later joiner has re-created the room and has both loops
\* running; the relay of the first connection, which had marked its own id dead
\* before, is about to run its cleanup on the room of the joiner.
C21_Witness ==
    \E p, q \in Procs :
        /\ p # q /\ room_id[p] = room_id[q]
        /\ Closed(p) /\ send_task[p] = "ended"
        /\ recv_task[p] = "relay_cleanup" /\ recv_dead[p] = {reservation[p].id}
        /\ InRoom(q) /\ reservation[q].count = 1
        /\ send_task[q] = "running" /\ recv_task[q] = "idle"
        /\ Members(room_id[q]) = {reservation[q].id}

\* C22: the first payload enqueued on the channel of an admitted connection is a
\* join envelope with success=true and the connection's own mark.  Until the
\* outbound loop is spawned nothing is taken out of the channel, so its head is
\* the first payload that was ever enqueued.
C22_FirstIsJoin ==
    \A p \in Procs :
        (send_task[p] = "unspawned" /\ chan[p] # << >>) =>
            /\ IsEnvelope(chan[p][1])
            /\ chan[p][1].message = "Someone joined the room"
            /\ chan[p][1].success = TRUE
            /\ chan[p][1].my_mark = to_string(reservation[p].mark)

====
